---- MODULE Spec2Model ----
(***************************************************************************)
(* A model of git-hours (src/utils.js and the command-line entry point     *)
(* src/unnamed/part_000): the branch walks of getCommits, the merge of     *)
(* their commit lists, the grouping by author, estimateHours and the       *)
(* report.                                                                 *)
(*                                                                         *)
(* Units.  An instant (a JavaScript Date) is a whole number of minutes     *)
(* since some epoch, so that (date - lastDate) / 1000 / 60 is the integer  *)
(* difference of two instants.  An hours figure x / 60 is represented by   *)
(* its numerator x (sixtieths of an hour), so that sums of hours are       *)
(* exact.                                                                  *)
(*                                                                         *)
(* null and undefined are the empty sequence Null; a present value x that  *)
(* may also be null is the one-element sequence <<x>>.  A string the code  *)
(* looks into (a commit message) is a sequence of one-character strings,   *)
(* a reference name is the sequence of its "/"-separated segments.         *)
(***************************************************************************)
EXTENDS Integers, Sequences, FiniteSets, TLC

VARIABLES
  config,    \* the process-wide config object
  refs,      \* the repository: reference name -> sha of the commit it points to
  contents,  \* the repository: sha -> what the commit holds
  walks,     \* one entry per selected branch: the walk of its history
  pc,        \* where the run is
  commits,   \* what getCommits resolved with
  report,    \* sortedWork as printed; Null as long as nothing is printed
  stderr,    \* the error main's catch printed; Null as long as there is none
  est        \* the direct calls of estimateHours

vars == <<config, refs, contents, walks, pc, commits, report, stderr, est>>

Null == <<>>
Some(x) == <<x>>

\* ------------------------------------------------------------------------
\* Bounds of the model
\* ------------------------------------------------------------------------

\* The longest list of dates handed to estimateHours directly.
MaxDates == 3

\* The commits of a repository are the shas 1..MaxCommits.
MaxCommits == 3

\* The instants commits are dated at (minutes).
Instants == {0, 20, 60, 150}

\* ------------------------------------------------------------------------
\* Configuration
\* ------------------------------------------------------------------------

DefaultMaxCommitDiffInMinutes == 60

DefaultFirstCommitAdditionInMinutes == 30

\* config.since / config.until after parseInputDate: the string 'always' or a
\* moment.
Always == [kind |-> "always", at |-> 0]
Moment(t) == [kind |-> "moment", at |-> t]

\* The default config object.
DefaultConfig ==
  [ maxCommitDiffInMinutes |-> DefaultMaxCommitDiffInMinutes,
    firstCommitAdditionInMinutes |-> DefaultFirstCommitAdditionInMinutes,
    since |-> [word |-> "always", date |-> 0],
    until |-> [word |-> "always", date |-> 0],
    mergeRequest |-> TRUE,
    branch |-> Null ]

\* A --since / --until argument: the word 'always', or a day (a shorthand
\* such as today, or yyyy-mm-dd) given by the instant it resolves to.
DateWord(w) == [word |-> w, date |-> 0]
DateArg(t) == [word |-> "date", date |-> t]

\* parseInputDate: 'always' stays the string, anything else is a moment.
parseInputDate(inputDate) ==
  IF inputDate.word = "always" THEN Always ELSE Moment(inputDate.date)

\* x || y for an option x holding a number: undefined, NaN and 0 are falsy.
OrDefault(x, y) == IF x = Null \/ x = Some(0) THEN y ELSE x[1]

\* mergeDefaultsWithArgs, with parseSinceDate and parseUntilDate applied to
\* its since and until.  The object it builds has no emailAliases key:
\* config.emailAliases reads undefined.
mergeDefaultsWithArgs(program) ==
  [ maxCommitDiffInMinutes |->
      OrDefault(program.maxCommitDiff, DefaultConfig.maxCommitDiffInMinutes),
    firstCommitAdditionInMinutes |->
      OrDefault(program.firstCommitAdd, DefaultConfig.firstCommitAdditionInMinutes),
    since |-> parseInputDate(IF program.since = Null THEN DefaultConfig.since
                             ELSE program.since[1]),
    until |-> parseInputDate(IF program.until = Null THEN DefaultConfig.until
                             ELSE program.until[1]),
    mergeRequest |-> IF program.mergeRequest # Null
                     THEN program.mergeRequest[1] = "true"
                     ELSE DefaultConfig.mergeRequest,
    branch |-> program.branch,
    emailAliases |-> Null ]

\* main up to the call of getCommits: the parsed command line (program)
\* becomes the config, and every --email option adds an alias; program.email
\* is the alias object the options build (Null without any).
ParseArgs(program) ==
  [mergeDefaultsWithArgs(program) EXCEPT !.emailAliases = program.email]

\* ------------------------------------------------------------------------
\* estimateHours
\* ------------------------------------------------------------------------

Min(a, b) == IF a <= b THEN a ELSE b

\* One step of Array.prototype.sort with the comparator a - b: d is put
\* behind the elements that do not compare greater.
RECURSIVE InsertDate(_, _)
InsertDate(d, sorted) ==
  IF sorted = <<>> THEN <<d>>
  ELSE IF d - Head(sorted) < 0 THEN <<d>> \o sorted
  ELSE <<Head(sorted)>> \o InsertDate(d, Tail(sorted))

\* dates.sort(function(a, b) { return a - b; })
RECURSIVE SortDates(_)
SortDates(dates) ==
  IF dates = <<>> THEN <<>>
  ELSE InsertDate(dates[Len(dates)], SortDates(SubSeq(dates, 1, Len(dates) - 1)))

\* Variants of Credit: a gap credited with the whole bonus, and a threshold
\* compared with <=.
CreditBonusOnly(diffInMinutes) ==
  IF diffInMinutes < config.maxCommitDiffInMinutes
  THEN diffInMinutes
  ELSE config.firstCommitAdditionInMinutes

CreditNotStrict(diffInMinutes) ==
  IF diffInMinutes <= config.maxCommitDiffInMinutes
  THEN diffInMinutes
  ELSE Min(diffInMinutes, config.firstCommitAdditionInMinutes)

\* The minutes one iteration of the forEach adds for the date after lastDate.
Credit(diffInMinutes) ==
  IF diffInMinutes < config.maxCommitDiffInMinutes
  THEN diffInMinutes
  ELSE Min(diffInMinutes, config.firstCommitAdditionInMinutes)

\* The forEach over sortedDates from index i on.
RECURSIVE EstimateLoop(_, _, _, _)
EstimateLoop(sortedDates, i, lastDate, currentMinutes) ==
  IF i > Len(sortedDates) THEN currentMinutes
  ELSE IF lastDate = Null
       THEN EstimateLoop(sortedDates, i + 1, Some(sortedDates[i]), currentMinutes)
       ELSE EstimateLoop(sortedDates, i + 1, Some(sortedDates[i]),
                         currentMinutes + Credit(sortedDates[i] - lastDate[1]))

\* A variant of estimateHours that leaves the sort out.
EstimateUnsorted(dates) ==
  EstimateLoop(dates, 1, Null, config.firstCommitAdditionInMinutes)

\* estimateHours(dates), in sixtieths of an hour (currentMinutes / 60).
estimateHours(dates) ==
  EstimateLoop(SortDates(dates), 1, Null, config.firstCommitAdditionInMinutes)

\* ------------------------------------------------------------------------
\* The repository
\* ------------------------------------------------------------------------

Shas == 1..MaxCommits

\* The parent of a commit; the commit 1 is the root.  Two branches whose
\* heads differ share the history from their common ancestor on.
Parent(sha) == sha \div 2

\* commit.history(): the commits the walk from a head emits, the head first,
\* then its ancestors.
RECURSIVE History(_)
History(sha) == IF sha < 1 THEN <<>> ELSE <<sha>> \o History(Parent(sha))

RefsHeads == <<"refs", "heads">>
Master == <<"master">>
Dev == <<"dev">>
Gone == <<"gone">>
TagV1 == <<"refs", "tags", "v1">>

\* Commit messages.
MsgMergeBranch ==
  <<"M", "e", "r", "g", "e", " ", "b", "r", "a", "n", "c", "h", " ", "'", "x", "'">>
MsgMergeFix == <<"m", "e", "r", "g", "e", " ", "f", "i", "x">>
MsgMerged == <<"M", "e", "r", "g", "e", "d">>
MsgInit == <<"i", "n", "i", "t">>
MergePrefix == <<"M", "e", "r", "g", "e", " ">>

\* String.prototype.startsWith
StartsWith(str, prefix) ==
  /\ Len(str) >= Len(prefix)
  /\ SubSeq(str, 1, Len(prefix)) = prefix

\* ------------------------------------------------------------------------
\* getCommits and getBranchCommits
\* ------------------------------------------------------------------------

\* The filter of getCommits on a reference name: with a branch,
\* reference == 'refs/heads/' + branch; without, reference.match(/refs\/heads\/.*/).
MatchesHeads(reference) ==
  \E i \in 1..Len(reference) :
    /\ i + 2 <= Len(reference)
    /\ reference[i] = "refs"
    /\ reference[i + 1] = "heads"

\* A variant of SelectsReference that falls back on every branch.
SelectsReferenceOfAnyBranch(reference, branch) == MatchesHeads(reference)

SelectsReference(reference, branch) ==
  IF branch # Null
  THEN reference = RefsHeads \o branch[1]
  ELSE MatchesHeads(reference)

\* The references getCommits walks, in the order of getReferenceNames.
SelectedReferences ==
  SelectSeq(refs, LAMBDA r : SelectsReference(r.name, config.branch))

\* commitData of the 'commit' handler.
CommitData(sha) ==
  [ sha |-> sha,
    date |-> contents[sha].date,
    message |-> contents[sha].message,
    author |-> contents[sha].author ]

\* A variant of IsValidSince with isSameOrAfter.
IsValidSinceInclusive(date) ==
  config.since.kind = "always" \/ date >= config.since.at

\* isValidSince: sinceAlways || moment(date).isAfter(config.since)
IsValidSince(date) ==
  config.since.kind = "always" \/ date > config.since.at

\* isValidUntil: untilAlways || moment(date).isBefore(config.until)
IsValidUntil(date) ==
  config.until.kind = "always" \/ date < config.until.at

\* _.uniq(commits, item => item.sha): the first commit of every sha, in order.
RECURSIVE UniqBySha(_, _)
UniqBySha(list, seen) ==
  IF list = <<>> THEN <<>>
  ELSE IF Head(list).sha \in seen THEN UniqBySha(Tail(list), seen)
  ELSE <<Head(list)>> \o UniqBySha(Tail(list), seen \cup {Head(list).sha})

\* A variant of Uniq that keeps every commit.
UniqNone(list) == list

Uniq(list) == UniqBySha(list, {})

\* The reduce of getCommits: the branches' commit lists, one after the other.
RECURSIVE ConcatWalks(_, _)
ConcatWalks(ws, i) ==
  IF i > Len(ws) THEN <<>> ELSE ws[i].commits \o ConcatWalks(ws, i + 1)

\* A variant of MergeDropped that ignores the case of the first letter.
MergeDroppedAnyCase(commit) ==
  /\ ~config.mergeRequest
  /\ \/ StartsWith(commit.message, MergePrefix)
     \/ StartsWith(commit.message, <<"m">> \o Tail(MergePrefix))

\* The filter on uniqueCommits: the commit is dropped.
MergeDropped(commit) ==
  /\ ~config.mergeRequest
  /\ StartsWith(commit.message, MergePrefix)

\* ------------------------------------------------------------------------
\* The report (the callback of main and of extractData)
\* ------------------------------------------------------------------------

\* A JavaScript object with string keys is the sequence of its (key, value)
\* pairs in the order the keys were added.
HasKey(obj, key) == \E i \in 1..Len(obj) : obj[i].key = key

Get(obj, key) == obj[CHOOSE i \in 1..Len(obj) : obj[i].key = key].value

\* obj[key] = value: a key the object has keeps its place.
Put(obj, key, value) ==
  IF HasKey(obj, key)
  THEN [i \in 1..Len(obj) |->
          IF obj[i].key = key THEN [key |-> key, value |-> value] ELSE obj[i]]
  ELSE Append(obj, [key |-> key, value |-> value])

\* The key _.groupBy files a commit under; the commit has an author.
GroupKey(commit) ==
  LET email == IF commit.author[1].email = "" THEN "unknown"
               ELSE commit.author[1].email
  IN  IF config.emailAliases # Null /\ email \in DOMAIN config.emailAliases[1]
      THEN config.emailAliases[1][email]
      ELSE email

\* _.groupBy(commits, ...)
RECURSIVE GroupByEmail(_, _)
GroupByEmail(list, obj) ==
  IF list = <<>> THEN obj
  ELSE LET key == GroupKey(Head(list))
           old == IF HasKey(obj, key) THEN Get(obj, key) ELSE <<>>
       IN  GroupByEmail(Tail(list), Put(obj, key, Append(old, Head(list))))

\* _.pluck(authorCommits, 'date')
PluckDate(authorCommits) ==
  [i \in 1..Len(authorCommits) |-> authorCommits[i].date]

\* _.map(commitsByEmail, ...)
AuthorWorks(commitsByEmail) ==
  [i \in 1..Len(commitsByEmail) |->
     [ email |-> commitsByEmail[i].key,
       name |-> commitsByEmail[i].value[1].author[1].name,
       hours |-> estimateHours(PluckDate(commitsByEmail[i].value)),
       commits |-> Len(commitsByEmail[i].value) ]]

\* One step of _.sortBy(authorWorks, 'hours'), which is stable.
RECURSIVE InsertByHours(_, _)
InsertByHours(w, sorted) ==
  IF sorted = <<>> THEN <<w>>
  ELSE IF w.hours < Head(sorted).hours THEN <<w>> \o sorted
  ELSE <<Head(sorted)>> \o InsertByHours(w, Tail(sorted))

RECURSIVE SortByHours(_)
SortByHours(works) ==
  IF works = <<>> THEN <<>>
  ELSE InsertByHours(works[Len(works)],
                     SortByHours(SubSeq(works, 1, Len(works) - 1)))

\* The _.each that fills sortedWork.
RECURSIVE FillSortedWork(_, _)
FillSortedWork(works, obj) ==
  IF works = <<>> THEN obj
  ELSE FillSortedWork(Tail(works),
         Put(obj, Head(works).email,
             [ name |-> Head(works).name,
               hours |-> Head(works).hours,
               commits |-> Head(works).commits ]))

\* _.reduce(sortedWork, (sum, authorWork) => sum + authorWork.hours, 0)
RECURSIVE SumHours(_)
SumHours(obj) ==
  IF obj = <<>> THEN 0 ELSE Head(obj).value.hours + SumHours(Tail(obj))

\* sortedWork once the total is set.
SortedWork(list) ==
  LET sortedWork == FillSortedWork(SortByHours(AuthorWorks(GroupByEmail(list, <<>>))), <<>>)
  IN  Put(sortedWork, "total",
          [hours |-> SumHours(sortedWork), commits |-> Len(list)])

\* commit.author.email throws a TypeError for a commit whose author is null.
Throws(list) == \E i \in 1..Len(list) : list[i].author = Null

\* ------------------------------------------------------------------------
\* The run
\* ------------------------------------------------------------------------

NoEst ==
  [ dates |-> <<>>, hours |-> Null, credits |-> <<>>, other |-> <<>>,
    otherHours |-> Null, more |-> <<>>, moreHours |-> Null ]

\* The state main calls getCommits in.
InitRun(program, references, objects) ==
  /\ config = ParseArgs(program)
  /\ refs = references
  /\ contents = objects
  /\ walks = <<>>
  /\ pc = "open"
  /\ commits = <<>>
  /\ report = Null
  /\ stderr = Null
  /\ est = NoEst

\* getCommits up to history.start(): the references are filtered and every
\* selected branch starts the walk of its history.
StartWalks ==
  /\ pc = "open"
  /\ walks' = [i \in 1..Len(SelectedReferences) |->
                 [ history |-> History(SelectedReferences[i].target),
                   next |-> 1,
                   commits |-> <<>>,
                   status |-> "walking" ]]
  /\ pc' = "walking"
  /\ UNCHANGED <<config, refs, contents, commits, report, stderr, est>>

\* history.on('commit', ...) of the walk i.
OnCommit(i) ==
  /\ walks[i].status = "walking"
  /\ walks[i].next <= Len(walks[i].history)
  /\ LET commitData == CommitData(walks[i].history[walks[i].next])
         kept == IsValidSince(commitData.date) /\ IsValidUntil(commitData.date)
     IN  walks' = [walks EXCEPT
           ![i].next = @ + 1,
           ![i].commits = IF kept THEN Append(@, commitData) ELSE @]
  /\ UNCHANGED <<config, refs, contents, pc, commits, report, stderr, est>>

\* history.on('end', ...) of the walk i: resolve(commits).
OnEnd(i) ==
  /\ walks[i].status = "walking"
  /\ walks[i].next > Len(walks[i].history)
  /\ walks' = [walks EXCEPT ![i].status = "ended"]
  /\ UNCHANGED <<config, refs, contents, pc, commits, report, stderr, est>>

\* history.on('error', ...) of the walk i: reject(err).
OnError(i) ==
  /\ walks[i].status = "walking"
  /\ walks' = [walks EXCEPT ![i].status = "failed"]
  /\ UNCHANGED <<config, refs, contents, pc, commits, report, stderr, est>>

AllEnded == \A i \in 1..Len(walks) : walks[i].status = "ended"

\* A variant of Joined that waits for one walk only.
SomeEnded == \E i \in 1..Len(walks) : walks[i].status = "ended"

\* The promise of the second map is fulfilled.
Joined == AllEnded

\* The reduce and the then of getCommits, once every walk has resolved.
MergeCommits ==
  /\ pc = "walking"
  /\ Joined
  /\ LET uniqueCommits == Uniq(ConcatWalks(walks, 1))
     IN  commits' = SelectSeq(uniqueCommits, LAMBDA c : ~MergeDropped(c))
  /\ pc' = "merged"
  /\ UNCHANGED <<config, refs, contents, walks, report, stderr, est>>

\* A rejected walk rejects the promise of the map: the callbacks after it
\* are skipped and the catch of main prints the error.
Catch ==
  /\ pc = "walking"
  /\ \E i \in 1..Len(walks) : walks[i].status = "failed"
  /\ pc' = "failed"
  /\ stderr' = Some("walk error")
  /\ UNCHANGED <<config, refs, contents, walks, commits, report, est>>

\* The callback of main on the commits of getCommits; what it throws goes
\* to the catch of main.
PrintReport ==
  /\ pc = "merged"
  /\ IF Throws(commits)
     THEN /\ pc' = "failed"
          /\ stderr' = Some("TypeError")
          /\ UNCHANGED report
     ELSE /\ pc' = "done"
          /\ report' = Some(SortedWork(commits))
          /\ UNCHANGED stderr
  /\ UNCHANGED <<config, refs, contents, walks, commits, est>>

Next ==
  \/ StartWalks
  \/ \E i \in 1..Len(walks) : OnCommit(i)
  \/ \E i \in 1..Len(walks) : OnEnd(i)
  \/ \E i \in 1..Len(walks) : OnError(i)
  \/ MergeCommits
  \/ Catch
  \/ PrintReport

\* ------------------------------------------------------------------------
\* Repositories and command lines
\* ------------------------------------------------------------------------

NoArgs ==
  [ maxCommitDiff |-> Null, firstCommitAdd |-> Null, since |-> Null,
    until |-> Null, mergeRequest |-> Null, branch |-> Null, email |-> Null ]

\* A repository with the branches master and dev and the tag v1.
References(master, dev, tag) ==
  << [name |-> RefsHeads \o Master, target |-> master],
     [name |-> RefsHeads \o Dev, target |-> dev],
     [name |-> TagV1, target |-> tag] >>

Alice == Some([name |-> "Alice", email |-> "alice@x"])
AliceW == Some([name |-> "Alice W", email |-> "alice@y"])
Bob == Some([name |-> "Bob", email |-> "bob@x"])
Nobody == Some([name |-> "Nobody", email |-> ""])

Commit(date, message, author) ==
  [date |-> date, message |-> message, author |-> author]

\* Branches that share history and branches that do not, a branch
\* restriction, a window and the merge flag.
HistoryCommits ==
  { Commit(20, MsgMergeBranch, Alice), Commit(60, MsgInit, Bob) }

HistoryPrograms ==
  { [NoArgs EXCEPT !.branch = b, !.since = s, !.mergeRequest = m] :
      b \in {Null, Some(Master), Some(Dev), Some(Gone)},
      s \in {Null, Some(DateArg(20))},
      m \in {Null, Some("false")} }

Init ==
  \E program \in HistoryPrograms, master \in Shas, dev \in Shas,
     objects \in [Shas -> HistoryCommits] :
    InitRun(program, References(master, dev, MaxCommits), objects)

Spec == Init /\ [][Next]_vars

\* Commits at, before and after the ends of the window, with messages that
\* do and do not start with "Merge ".
FilterCommits ==
  { Commit(20, MsgMergeBranch, Alice), Commit(60, MsgMergeFix, Alice),
    Commit(60, MsgMergeBranch, Bob), Commit(150, MsgMerged, Bob) }

FilterPrograms ==
  { [NoArgs EXCEPT !.since = s, !.until = u, !.mergeRequest = m] :
      s \in {Null, Some(DateWord("always")), Some(DateArg(20)), Some(DateArg(60))},
      u \in {Null, Some(DateArg(60)), Some(DateArg(150))},
      m \in {Null, Some("true"), Some("false")} }

FilterInit ==
  \E program \in FilterPrograms, objects \in [Shas -> FilterCommits] :
    InitRun(program, References(MaxCommits, MaxCommits - 1, 1), objects)

FilterSpec == FilterInit /\ [][Next]_vars

\* Authors with and without an alias, an author without email, a commit
\* without author, and an alias that is the word total.
AuthorCommits ==
  { Commit(0, MsgInit, Alice), Commit(20, MsgInit, AliceW),
    Commit(60, MsgInit, Bob), Commit(150, MsgInit, Nobody),
    Commit(60, MsgInit, Null) }

AuthorAliases ==
  { Null,
    Some([e \in {"alice@y"} |-> "alice@x"]),
    Some([e \in {"bob@x"} |-> "total"]) }

AuthorPrograms ==
  { [NoArgs EXCEPT !.email = a, !.firstCommitAdd = b] :
      a \in AuthorAliases, b \in {Null, Some(300)} }

AuthorInit ==
  \E program \in AuthorPrograms, objects \in [Shas -> AuthorCommits] :
    InitRun(program, References(MaxCommits, MaxCommits - 1, 1), objects)

AuthorSpec == AuthorInit /\ [][Next]_vars

\* ------------------------------------------------------------------------
\* estimateHours called on its own
\* ------------------------------------------------------------------------

EstimatePrograms ==
  { [NoArgs EXCEPT !.maxCommitDiff = d, !.firstCommitAdd = a] :
      d \in {Null, Some(0), Some(20), Some(90)},
      a \in {Null, Some(10), Some(90), Some(300)} }

DateLists == UNION { [1..n -> Instants] : n \in 0..MaxDates }

EstimateInit ==
  \E program \in EstimatePrograms, dates \in DateLists :
    /\ config = ParseArgs(program)
    /\ refs = <<>>
    /\ contents = <<>>
    /\ walks = <<>>
    /\ pc = "idle"
    /\ commits = <<>>
    /\ report = Null
    /\ stderr = Null
    /\ est = [NoEst EXCEPT !.dates = dates]

\* The minutes the forEach of estimateHours adds, date after date.
Credits(dates) ==
  LET sortedDates == SortDates(dates)
  IN  [i \in 1..(Len(sortedDates) - 1) |-> Credit(sortedDates[i + 1] - sortedDates[i])]

\* estimateHours(est.dates)
EstimateCall ==
  /\ pc = "idle"
  /\ est.hours = Null
  /\ est' = [est EXCEPT !.hours = Some(estimateHours(est.dates)),
                        !.credits = Credits(est.dates)]
  /\ UNCHANGED <<config, refs, contents, walks, pc, commits, report, stderr>>

IsPermutation(p, n) ==
  /\ DOMAIN p = 1..n
  /\ \A i \in 1..n : \E j \in 1..n : p[j] = i

\* estimateHours on a reordering of est.dates
EstimatePermuted ==
  /\ pc = "idle"
  /\ est.hours # Null
  /\ est.otherHours = Null
  /\ est.moreHours = Null
  /\ \E p \in [1..Len(est.dates) -> 1..Len(est.dates)] :
       /\ IsPermutation(p, Len(est.dates))
       /\ LET other == [i \in 1..Len(est.dates) |-> est.dates[p[i]]]
          IN  est' = [est EXCEPT !.other = other,
                                 !.otherHours = Some(estimateHours(other))]
  /\ UNCHANGED <<config, refs, contents, walks, pc, commits, report, stderr>>

\* estimateHours on est.dates with one more date, put anywhere in the list
EstimateWithOneMore ==
  /\ pc = "idle"
  /\ est.hours # Null
  /\ est.otherHours = Null
  /\ est.moreHours = Null
  /\ \E date \in Instants, k \in 0..Len(est.dates) :
       LET more == SubSeq(est.dates, 1, k) \o <<date>>
                     \o SubSeq(est.dates, k + 1, Len(est.dates))
       IN  est' = [est EXCEPT !.more = more,
                              !.moreHours = Some(estimateHours(more))]
  /\ UNCHANGED <<config, refs, contents, walks, pc, commits, report, stderr>>

EstimateNext == EstimateCall \/ EstimatePermuted \/ EstimateWithOneMore

EstimateSpec == EstimateInit /\ [][EstimateNext]_vars

\* ------------------------------------------------------------------------
\* Properties of estimateHours (EstimateSpec)
\* ------------------------------------------------------------------------

Threshold == config.maxCommitDiffInMinutes
Bonus == config.firstCommitAdditionInMinutes

Count(list, x) == Cardinality({i \in 1..Len(list) : list[i] = x})

\* The ascending arrangement of a list, stated by what it is.
Ascending(list) ==
  CHOOSE s \in [1..Len(list) -> {list[i] : i \in 1..Len(list)}] :
    /\ \A i \in 1..(Len(list) - 1) : s[i] <= s[i + 1]
    /\ \A i \in 1..Len(list) : Count(s, list[i]) = Count(list, list[i])

\* The gaps between consecutive dates of est.dates in ascending order.
Gaps ==
  LET s == Ascending(est.dates)
  IN  [i \in 1..(Len(s) - 1) |-> s[i + 1] - s[i]]

RECURSIVE Sum(_)
Sum(list) == IF list = <<>> THEN 0 ELSE Head(list) + Sum(Tail(list))

\* c(diff) of the claim C1.
Credited(diff) == IF diff < Threshold THEN diff ELSE Min(diff, Bonus)

\* C1: for a non-empty list of dates, estimateHours returns
\* (B + the sum of c(diff) over the consecutive gaps of the dates in
\* ascending order) / 60, where c(diff) = diff if diff < T and min(diff, B)
\* otherwise; a gap equal to T is credited min(T, B), and a single date gives
\* B / 60.
C1_EstimateIsBonusPlusCredits ==
  (est.hours # Null /\ est.dates # <<>>) =>
    /\ est.hours[1] = Bonus + Sum([i \in DOMAIN Gaps |-> Credited(Gaps[i])])
    /\ Len(est.dates) = 1 => est.hours[1] = Bonus
    /\ \A i \in DOMAIN Gaps :
         Gaps[i] = Threshold => est.credits[i] = Min(Threshold, Bonus)

\* A call on an unsorted list of three dates with a gap equal to the
\* threshold and a bonus above it.
C1_Witness ==
  /\ est.hours # Null
  /\ Len(est.dates) = 3
  /\ est.dates # Ascending(est.dates)
  /\ \E i \in DOMAIN Gaps : Gaps[i] = Threshold
  /\ Bonus > Threshold

\* C2: estimateHours returns the same value for a list of dates (duplicates
\* allowed) and for any reordering of it, under the same configuration.
C2_PermutationInvariant ==
  est.otherHours # Null => est.otherHours = est.hours

\* A reordering that differs from the list, of a list with a duplicate.
C2_Witness ==
  /\ est.otherHours # Null
  /\ est.other # est.dates
  /\ \E i, j \in 1..Len(est.dates) : i # j /\ est.dates[i] = est.dates[j]

\* C3 as stated: the minutes credited for a gap that is a session boundary
\* (diff >= threshold) are at most the bonus and strictly less than the gap,
\* whatever the threshold and the bonus.
C3_BoundaryGapNeverFullyCredited ==
  est.hours # Null =>
    \A i \in DOMAIN Gaps :
      Gaps[i] >= Threshold =>
        /\ est.credits[i] <= Bonus
        /\ est.credits[i] < Gaps[i]

\* C3 as amended: the minutes credited for a gap that is a session boundary
\* are at most the bonus and at most the gap; they are strictly less than
\* the gap exactly when the bonus is less than the gap.
C3_BoundaryGapCreditedAtMostBonusAndGap ==
  est.hours # Null =>
    \A i \in DOMAIN Gaps :
      Gaps[i] >= Threshold =>
        /\ est.credits[i] <= Bonus
        /\ est.credits[i] <= Gaps[i]
        /\ est.credits[i] < Gaps[i] <=> Bonus < Gaps[i]

\* A session boundary that is credited in full: the bonus is not below it.
C3_Witness ==
  /\ est.hours # Null
  /\ \E i \in DOMAIN Gaps :
       /\ Gaps[i] >= Threshold
       /\ Bonus >= Gaps[i]
       /\ est.credits[i] = Gaps[i]

\* ------------------------------------------------------------------------
\* Properties of getCommits (Spec, FilterSpec)
\* ------------------------------------------------------------------------

\* getCommits has resolved: commits holds its result.
Resolved == pc \in {"merged", "done"} \/ stderr = Some("TypeError")

ShasOf(list) == {list[i].sha : i \in 1..Len(list)}

\* The commits in the history of a selected branch: the head of the branch
\* and the commits reached from it parent by parent.
Reached ==
  { sha \in Shas :
      \E i \in 1..Len(refs) :
        /\ IF config.branch = Null
           THEN Len(refs[i].name) = 3 /\ SubSeq(refs[i].name, 1, 2) = RefsHeads
           ELSE refs[i].name = RefsHeads \o config.branch[1]
        /\ \E path \in [1..MaxCommits -> Shas] :
             /\ path[1] = refs[i].target
             /\ \A k \in 1..(MaxCommits - 1) :
                  path[k + 1] = path[k] \/ path[k + 1] = Parent(path[k])
             /\ path[MaxCommits] = sha }

InWindow(sha) ==
  /\ config.since.kind = "always" \/ contents[sha].date > config.since.at
  /\ config.until.kind = "always" \/ contents[sha].date < config.until.at

\* The message begins with "Merge ", letter by letter.
BeginsWithMerge(message) ==
  /\ Len(message) >= 6
  /\ message[1] = "M" /\ message[2] = "e" /\ message[3] = "r"
  /\ message[4] = "g" /\ message[5] = "e" /\ message[6] = " "

PassesFilters(sha) ==
  /\ InWindow(sha)
  /\ config.mergeRequest \/ ~BeginsWithMerge(contents[sha].message)

\* C4: once getCommits has merged the commit lists of the branches, every
\* sha appears exactly once in its result, and every sha that passed the
\* filters on at least one branch appears in it.
C4_MergedCommitsUnique ==
  Resolved =>
    /\ \A i, j \in 1..Len(commits) : commits[i].sha = commits[j].sha => i = j
    /\ \A sha \in Reached : PassesFilters(sha) => sha \in ShasOf(commits)

\* Two branches with different heads that share a commit, which is in the
\* result, as is a commit only one of them has.
C4_Witness ==
  /\ pc = "merged"
  /\ Len(walks) = 2
  /\ \E a, b \in ShasOf(commits) :
       /\ a \in ShasOf(walks[1].commits) /\ a \in ShasOf(walks[2].commits)
       /\ b \in ShasOf(walks[1].commits) /\ b \notin ShasOf(walks[2].commits)

\* C5: the window is exclusive at both ends: a commit is in the final set
\* only if (since is "always" or its date is strictly after since) and
\* (until is "always" or its date is strictly before until); a commit dated
\* exactly at since or at until is never in it.
C5_WindowExclusive ==
  Resolved =>
    \A i \in 1..Len(commits) :
      /\ config.since.kind = "always" \/ commits[i].date > config.since.at
      /\ config.until.kind = "always" \/ commits[i].date < config.until.at
      /\ config.since.kind = "moment" => commits[i].date # config.since.at
      /\ config.until.kind = "moment" => commits[i].date # config.until.at

\* A window with a commit at its start and a commit at its end, and a commit
\* inside it that is in the result.
C5_Witness ==
  /\ pc = "merged"
  /\ config.since.kind = "moment"
  /\ config.until.kind = "moment"
  /\ \E a, b \in Reached :
       /\ contents[a].date = config.since.at
       /\ contents[b].date = config.until.at
  /\ commits # <<>>

\* C6: a commit (of a selected branch, in the window) is dropped by the
\* merge filter if and only if merge inclusion is disabled and its message
\* begins with "Merge "; with inclusion enabled none is dropped, and a
\* message such as "merge fix" is never dropped.
C6_MergeFilter ==
  Resolved =>
    \A sha \in Reached :
      InWindow(sha) =>
        /\ sha \notin ShasOf(commits) <=>
             (~config.mergeRequest /\ BeginsWithMerge(contents[sha].message))
        /\ config.mergeRequest => sha \in ShasOf(commits)
        /\ contents[sha].message = MsgMergeFix => sha \in ShasOf(commits)

\* Merge inclusion is disabled: a "Merge branch 'x'" is dropped, a
\* "merge fix" is kept.
C6_Witness ==
  /\ pc = "merged"
  /\ ~config.mergeRequest
  /\ \E a, b \in Reached :
       /\ InWindow(a) /\ contents[a].message = MsgMergeBranch
       /\ a \notin ShasOf(commits)
       /\ InWindow(b) /\ contents[b].message = MsgMergeFix
       /\ b \in ShasOf(commits)

\* ------------------------------------------------------------------------
\* Properties of the report (AuthorSpec)
\* ------------------------------------------------------------------------

\* The canonical email of a filtered commit, as the claim C9 gives it: the
\* alias of the author email if it has one, else the author email, and
\* "unknown" for a commit without author (or without author email).
CanonicalEmail(commit) ==
  IF commit.author = Null THEN "unknown"
  ELSE IF commit.author[1].email = "" THEN "unknown"
  ELSE LET email == commit.author[1].email
       IN  IF config.emailAliases # Null /\ email \in DOMAIN config.emailAliases[1]
           THEN config.emailAliases[1][email]
           ELSE email

CanonicalEmails == {CanonicalEmail(commits[i]) : i \in 1..Len(commits)}

CommitsOf(email) ==
  Cardinality({i \in 1..Len(commits) : CanonicalEmail(commits[i]) = email})

\* The entries of the printed report, and its per-author entries: those
\* that are not the entry of the total.
Entries == report[1]
AuthorEntries == SelectSeq(Entries, LAMBDA e : e.key # "total")
TotalEntry == Get(Entries, "total")

HoursOf(entries) == [i \in 1..Len(entries) |-> entries[i].value.hours]
CountsOf(entries) == [i \in 1..Len(entries) |-> entries[i].value.commits]

\* C7: in every report, total.hours is the sum of the hours of its
\* per-author entries, and total.commits is the size of the filtered unique
\* commit set, which is the sum of the per-author commit counts.
C7_TotalsAreSums ==
  report # Null =>
    /\ TotalEntry.hours = Sum(HoursOf(AuthorEntries))
    /\ TotalEntry.commits = Len(commits)
    /\ TotalEntry.commits = Sum(CountsOf(AuthorEntries))

\* C8: the report holds exactly one per-author entry for each distinct
\* canonical email among the filtered commits, whatever the email is, the
\* per-author entries are in ascending order of hours, and the entry of the
\* total comes after all of them.
C8_OneEntryPerEmailThenTotal ==
  report # Null =>
    LET n == Len(Entries)
        authors == SubSeq(Entries, 1, n - 1)
    IN  /\ Entries[n].key = "total"
        /\ Len(authors) = Cardinality(CanonicalEmails)
        /\ \A email \in CanonicalEmails :
             Cardinality({i \in 1..Len(authors) : authors[i].key = email}) = 1
        /\ \A i \in 1..(Len(authors) - 1) :
             authors[i].value.hours <= authors[i + 1].value.hours

\* C9: each filtered commit is attributed to its canonical email (the alias
\* of its author email if there is one, else the author email, "unknown" if
\* the commit has no author); a commit without author does not abort the
\* run and is counted in the "unknown" group.
C9_AbsentAuthorIsUnknown ==
  /\ stderr # Some("TypeError")
  /\ report # Null =>
       \A email \in CanonicalEmails \ {"total"} :
         /\ HasKey(Entries, email)
         /\ Get(Entries, email).commits = CommitsOf(email)

\* ------------------------------------------------------------------------
\* The join of the branch walks (Spec)
\* ------------------------------------------------------------------------

SomeFailed == \E i \in 1..Len(walks) : walks[i].status = "failed"

\* C10: the merge and the report happen only after every selected branch
\* walk has ended successfully; once a walk has emitted an error, whatever
\* the other walks have done or do, nothing is merged and no report is
\* printed, and the run can only go on to its failure.
C10_JoinBarrier ==
  /\ (pc \in {"merged", "done"} \/ report # Null \/ commits # <<>>) => AllEnded
  /\ SomeFailed =>
       /\ report = Null
       /\ commits = <<>>
       /\ pc \in {"walking", "failed"}
       /\ pc = "walking" => ENABLED Catch
       /\ pc = "failed" => stderr = Some("walk error")
       /\ ~ENABLED MergeCommits
       /\ ~ENABLED PrintReport

\* The run has failed with one walk in error and another that had ended
\* with commits.
C10_Witness ==
  /\ pc = "failed"
  /\ report = Null
  /\ \E i, j \in 1..Len(walks) :
       /\ walks[i].status = "failed"
       /\ walks[j].status = "ended"
       /\ walks[j].commits # <<>>

\* ------------------------------------------------------------------------
\* A branch restriction that names no branch (Spec)
\* ------------------------------------------------------------------------

\* The branch restriction names a branch the repository does not have.
BranchMissing ==
  /\ config.branch # Null
  /\ \A i \in 1..Len(refs) :
       refs[i].name # <<"refs", "heads">> \o config.branch[1]

\* The report with no per-author entry and a total of zero.
EmptyReport ==
  << [key |-> "total", value |-> [hours |-> 0, commits |-> 0]] >>

\* C11: when the branch restriction names a branch that does not exist in
\* the repository, no error is raised, and the run goes on to a report that
\* has no per-author entry and a total of zero commits and zero hours.
C11_MissingBranchGivesEmptyReport ==
  BranchMissing =>
    /\ stderr = Null
    /\ pc \in {"open", "walking", "merged", "done"}
    /\ walks = <<>>
    /\ pc # "done" => ENABLED Next
    /\ pc = "done" => report = Some(EmptyReport)

\* The run with the missing branch has printed its report.
C11_Witness ==
  /\ BranchMissing
  /\ pc = "done"
  /\ report # Null
  /\ \E sha \in Shas : InWindow(sha)

\* ------------------------------------------------------------------------
\* estimateHours and one more date (EstimateSpec)
\* ------------------------------------------------------------------------

\* C12: with a threshold and a bonus that are not negative, one more date
\* in the list (before, between or after the dates it has, or equal to one
\* of them) never decreases the estimate, and no estimate is below
\* bonus / 60.
C12_MonotoneInDates ==
  (Threshold >= 0 /\ Bonus >= 0) =>
    /\ est.hours # Null => est.hours[1] >= Bonus
    /\ est.moreHours # Null =>
         /\ est.moreHours[1] >= est.hours[1]
         /\ est.moreHours[1] >= Bonus

\* A date added strictly between two dates whose gap is a session boundary,
\* and that splits it into two gaps below the threshold.
C12_Witness ==
  /\ est.moreHours # Null
  /\ Len(est.dates) = 2
  /\ \E i \in 1..Len(est.more) :
       /\ est.dates = SubSeq(est.more, 1, i - 1) \o SubSeq(est.more, i + 1, Len(est.more))
       /\ Ascending(est.dates)[1] < est.more[i]
       /\ est.more[i] < Ascending(est.dates)[2]
       /\ Ascending(est.dates)[2] - Ascending(est.dates)[1] >= Threshold
       /\ est.more[i] - Ascending(est.dates)[1] < Threshold
       /\ Ascending(est.dates)[2] - est.more[i] < Threshold

====
